---- MODULE Spec2Model ----
(***************************************************************************)
(* A model of quash's execution core, src/quash/src/execute.c.             *)
(*                                                                         *)
(* The shell process is pid 0.  run_script is a sequence of shell steps    *)
(* (the poll, one create_process per stage, one wait per stage) that       *)
(* interleave with the steps of the processes it forked.  Every process    *)
(* created by fork() is an entry of procs; its pid is its index.           *)
(***************************************************************************)
EXTENDS Integers, Sequences, FiniteSets, TLC

VARIABLES
    pc,         \* where the shell is: "idle" | "create" | "wait"
    holders,    \* the CommandHolder array of the running run_script call
    i,          \* the loop index of run_script's current loop (1-based)
    call,       \* number of non-empty run_script calls started so far
    procs,      \* every process forked so far, indexed by pid
    pipes,      \* number of pipes created so far by pipe()
    pipebuf,    \* per pipe, the bytes written to it and not read
    shFds,      \* pipe ends open in the shell besides descriptors 0, 1, 2
    cwd,        \* the shell's working directory (a canonical path)
    env,        \* the shell's environment
    jobs,       \* the shell's own job registry
    out,        \* what the shell has printed since run_script was last entered
    stages,     \* one record per create_process call of that run_script
    waits,      \* wait() calls the shell has made in the current run_script
    exported,   \* per name, the last ListEnvSet that succeeded, and whether a
                \* ChangeDirectory has changed the directory since
    have_get_finished_job,
                \* whether get_finished_job is a macro in this build (#ifdef)
    arg         \* the holders argument of the last run_script call

vars == <<pc, holders, i, call, procs, pipes, pipebuf, shFds, cwd, env, jobs,
          out, stages, waits, exported, have_get_finished_job, arg>>

-----------------------------------------------------------------------------
(* Bounds of the model. *)

\* run_script calls explored in one behaviour
MaxCalls == 2
\* processes the system lets the shell and its descendants create in all:
\* fork() fails with EAGAIN beyond it
MaxProcs == 4
\* depth of the chain of directories with 255-byte names, /L/L/.../L
LongDepth == 4
\* bytes a pipe holds before a write to it blocks
PipeCap == 2

-----------------------------------------------------------------------------
(* Program constants. *)

\* char cwd[1024] in run_cd
CwdBufSize == 1024
EXIT_FAILURE == 1
\* the wait status of a process ended by a signal, as the shell's $? shows it
SIGNALED == 128

SHELL == 0
\* the parent of an orphan (init)
INIT_PID == -1

-----------------------------------------------------------------------------
(* Environment values: a string, or the string of a path. *)

StrVal(s)  == [t |-> "str", v |-> <<s>>]
PathVal(p) == [t |-> "path", v |-> p]
Unset      == [t |-> "unset", v |-> <<>>]

EnvNames == {"FOO", "PWD"}

\* setenv(name, value, 1) == 0: EINVAL for an empty name or one holding '='
setenv_ok(name) == name \in EnvNames

setenv(e, name, value) == [e EXCEPT ![name] = value]

-----------------------------------------------------------------------------
(* Commands and command holders (the parser's data, execute.h). *)

MkCmd(type, args, gbg, env_var, val, dirnull, dir, job) ==
    [type |-> type, args |-> args, gbg |-> gbg, env_var |-> env_var,
     val |-> val, dirnull |-> dirnull, dir |-> dir, job |-> job]

NoDir == [abs |-> FALSE, comps |-> <<>>]

\* GenericCommand: args, and the BACKGROUND bit of cmd.flags read by run_generic
Generic(args, gbg) == MkCmd("GENERIC", args, gbg, "", Unset, TRUE, NoDir, 0)
Echo(args)         == MkCmd("ECHO", args, FALSE, "", Unset, TRUE, NoDir, 0)
Export(name, val)  == MkCmd("EXPORT", <<>>, FALSE, name, val, TRUE, NoDir, 0)
Cd(dirnull, dir)   == MkCmd("CD", <<>>, FALSE, "", Unset, dirnull, dir, 0)
Kill(job)          == MkCmd("KILL", <<>>, FALSE, "", Unset, TRUE, NoDir, job)
Pwd                == MkCmd("PWD", <<>>, FALSE, "", Unset, TRUE, NoDir, 0)
Jobs               == MkCmd("JOBS", <<>>, FALSE, "", Unset, TRUE, NoDir, 0)
Eoc                == MkCmd("EOC", <<>>, FALSE, "", Unset, TRUE, NoDir, 0)

\* CommandHolder: flags, the redirection files, the command
Holder(cmd, flags) ==
    [cmd |-> cmd, flags |-> flags,
     redirect_in  |-> IF "REDIRECT_IN" \in flags THEN 1 ELSE 0,
     redirect_out |-> IF "REDIRECT_OUT" \in flags THEN 2 ELSE 0]

EocHolder == Holder(Eoc, {})

get_command_type(cmd) == cmd.type
get_command_holder_type(h) == get_command_type(h.cmd)

\* a script: its stages followed by the EOC sentinel
Script(ss) == ss \o <<EocHolder>>

-----------------------------------------------------------------------------
(* Descriptors: what an open file descriptor refers to. *)

Tty        == [k |-> "tty", id |-> 0]
PipeRd(n)  == [k |-> "pipe_r", id |-> n]
PipeWr(n)  == [k |-> "pipe_w", id |-> n]
File(n)    == [k |-> "file", id |-> n]

-----------------------------------------------------------------------------
(* The file system seen by realpath, chdir and getcwd.  A path is the      *)
(* sequence of its components; the root is the empty sequence.             *)

RECURSIVE LongChain(_)
LongChain(n) == IF n = 0 THEN <<>> ELSE Append(LongChain(n - 1), "L")

\* directories the shell may enter
Dirs ==
    {<<>>, <<"a">>, <<"a", "b">>} \cup {LongChain(n) : n \in 1..LongDepth}
\* a directory without search permission: chdir fails with EACCES
LockedDirs == {<<"a", "x">>}
\* a regular file: chdir fails with ENOTDIR
Files == {<<"a", "f">>}
\* a symbolic link and its (canonical) target
IsLink(p) == p = <<"lnk">>
LinkTarget(p) == <<"a", "b">>

Exists(p) ==
    p \in Dirs \/ p \in LockedDirs \/ p \in Files \/ IsLink(p)

\* bytes of one component's name
NameLen(c) == IF c = "L" THEN 255 ELSE 1

RECURSIVE PathLen(_)
\* strlen of the path's string: "/" for the root, else "/c1/c2/..."
PathLen(p) ==
    IF p = <<>> THEN 1
    ELSE IF Len(p) = 1 THEN 1 + NameLen(p[1])
    ELSE PathLen(SubSeq(p, 1, Len(p) - 1)) + 1 + NameLen(p[Len(p)])

NoPath == [ok |-> FALSE, path |-> <<>>]
SomePath(p) == [ok |-> TRUE, path |-> p]

RECURSIVE Resolve(_, _)
\* realpath's walk: cur is the canonical prefix resolved so far
Resolve(cur, comps) ==
    IF comps = <<>> THEN SomePath(cur)
    ELSE IF cur \notin Dirs THEN NoPath
    ELSE LET c == Head(comps)
             rest == Tail(comps)
         IN  IF c = "." THEN Resolve(cur, rest)
             ELSE IF c = ".."
                  THEN Resolve(IF cur = <<>> THEN <<>>
                               ELSE SubSeq(cur, 1, Len(cur) - 1), rest)
             ELSE LET nxt == Append(cur, c)
                  IN  IF ~Exists(nxt) THEN NoPath
                      ELSE IF IsLink(nxt)
                           THEN Resolve(LinkTarget(nxt), rest)
                      ELSE Resolve(nxt, rest)

\* realpath(dir, NULL) called with working directory wd
realpath(dir, wd) ==
    Resolve(IF dir.abs THEN <<>> ELSE wd, dir.comps)

\* chdir(path) == 0
chdir_ok(p) == p \in Dirs

\* getcwd(buf, size) != NULL in working directory wd
getcwd_ok(wd, size) == PathLen(wd) + 1 <= size


-----------------------------------------------------------------------------
(* What a process prints: one record per line written. *)

Line(k, id, pid, txt) == [k |-> k, id |-> id, pid |-> pid, txt |-> txt]

Err(msg) == Line("error", 0, 0, <<msg>>)

\* print_job: "[%d]\t%8d\t%s\n"
print_job(job_id, pid, cmd) == Line("job", job_id, pid, <<cmd>>)
\* print_job_bg_start: "Background job started: " and the job's line
print_job_bg_start(job_id, pid, cmd) == Line("start", job_id, pid, <<cmd>>)
\* print_job_bg_complete: "Completed: \t" and the job's line
print_job_bg_complete(job_id, pid, cmd) == Line("complete", job_id, pid, <<cmd>>)

-----------------------------------------------------------------------------
(* Processes. *)

Exited(ps, p) == ps[p].st \in {"zombie", "reaped"}

\* the children of process q that wait() in q can still collect
Children(ps, q) == {p \in 1..Len(ps) : ps[p].ppid = q /\ ps[p].st # "reaped"}
Zombies(ps, q) == {p \in Children(ps, q) : ps[p].st = "zombie"}

\* what is left of a process once it has been collected: its pid is spent
Reaped ==
    [ppid |-> INIT_PID, role |-> "none", call |-> 0, stage |-> 0,
     st |-> "reaped", h |-> EocHolder, pipe |-> 0, fd0 |-> Tty, fd1 |-> Tty,
     fds |-> {}, env |-> [n \in EnvNames |-> Unset], cwd |-> <<>>,
     jobs |-> <<>>, ran |-> <<>>, said |-> <<>>, openfail |-> FALSE,
     status |-> 0, left |-> 0]

\* process p ends with the given status: it becomes a zombie of its parent
\* (init collects an orphan at once), and its own children become orphans
Terminate(ps, p, status) ==
    [q \in 1..Len(ps) |->
        IF q = p
        THEN IF ps[q].ppid = INIT_PID THEN Reaped
             ELSE [ps[q] EXCEPT !.st = "zombie", !.status = status]
        ELSE IF ps[q].ppid = p
             THEN IF ps[q].st = "zombie" THEN Reaped
                  ELSE [ps[q] EXCEPT !.ppid = INIT_PID]
        ELSE ps[q]]

\* fork() succeeds unless the process limit is reached (EAGAIN)
fork_ok(ps) == Len(ps) < MaxProcs

\* the process fork() returns 0 in, as first created
NewProc(ppid, role, c, stage, h, pipe, fd0, fd1, fds, e, wd, js) ==
    [ppid |-> ppid, role |-> role, call |-> c, stage |-> stage, st |-> "new",
     h |-> h, pipe |-> pipe, fd0 |-> fd0, fd1 |-> fd1, fds |-> fds,
     env |-> e, cwd |-> wd, jobs |-> js, ran |-> <<>>, said |-> <<>>,
     openfail |-> FALSE, status |-> 0, left |-> 0]

-----------------------------------------------------------------------------
(* The job registry (quash.h's collaborator; its code is not in the        *)
(* repository's sources, so it follows the specification's interface).     *)

RECURSIVE FreshId(_, _)
FreshId(js, n) ==
    IF \E k \in 1..Len(js) : js[k].id = n THEN FreshId(js, n + 1) ELSE n

\* add_background_job(pid, cmd): the registry afterwards; the new job is last
add_background_job(js, pid, cmd) ==
    Append(js, [id |-> FreshId(js, 1), pid |-> pid, cmd |-> cmd])

\* a tracked job is finished once its process has exited
JobFinished(ps, j) == j.pid \in 1..Len(ps) /\ Exited(ps, j.pid)

\* the jobs get_finished_job hands out, one per call, until it returns false
FinishedJobs(ps, js) == SelectSeq(js, LAMBDA j : JobFinished(ps, j))
\* the registry once they have been handed out
RemainingJobs(ps, js) == SelectSeq(js, LAMBDA j : ~JobFinished(ps, j))

\* list_background_jobs(): one line per tracked job, insertion order
list_background_jobs(js) ==
    [k \in 1..Len(js) |-> print_job(js[k].id, js[k].pid, js[k].cmd)]

-----------------------------------------------------------------------------
(* The built-ins that run in the shell.  sh is the shell's state,          *)
(* [cwd, env, out, procs, ran]; each returns the state afterwards.         *)

\* run_export calling setenv(cmd.env_var, cmd.val, 0): no overwrite
run_export_keep(sh, cmd) ==
    IF setenv_ok(cmd.env_var)
    THEN [sh EXCEPT !.env = IF sh.env[cmd.env_var] = Unset
                            THEN setenv(sh.env, cmd.env_var, cmd.val)
                            ELSE sh.env,
                    !.ran = Append(sh.ran, "run_export")]
    ELSE [sh EXCEPT !.out = Append(sh.out,
                        Err("ERROR: Failed to set environment variable")),
                    !.ran = Append(sh.ran, "run_export")]

\* run_export: setenv(cmd.env_var, cmd.val, 1), perror on failure
run_export(sh, cmd) ==
    IF setenv_ok(cmd.env_var)
    THEN [sh EXCEPT !.env = setenv(sh.env, cmd.env_var, cmd.val),
                    !.ran = Append(sh.ran, "run_export")]
    ELSE [sh EXCEPT !.out = Append(sh.out,
                        Err("ERROR: Failed to set environment variable")),
                    !.ran = Append(sh.ran, "run_export")]

\* run_cd setting PWD from real_path before chdir's result is known
run_cd_early_pwd(sh, cmd) ==
    IF cmd.dirnull
    THEN [sh EXCEPT !.out = Append(sh.out, Err("ERROR: Failed to resolve path")),
                    !.ran = Append(sh.ran, "run_cd")]
    ELSE LET real_path == realpath(cmd.dir, sh.cwd)
         IN  IF ~real_path.ok
             THEN [sh EXCEPT !.out = Append(sh.out,
                                 Err("ERROR: Failed to resolve absolute path")),
                             !.ran = Append(sh.ran, "run_cd")]
             ELSE IF ~chdir_ok(real_path.path)
             THEN [sh EXCEPT !.out = Append(sh.out,
                                 Err("ERROR: Failed to change directory")),
                             !.env = setenv(sh.env, "PWD",
                                            PathVal(real_path.path)),
                             !.ran = Append(sh.ran, "run_cd")]
             ELSE [sh EXCEPT !.cwd = real_path.path,
                             !.env = setenv(sh.env, "PWD",
                                            PathVal(real_path.path)),
                             !.ran = Append(sh.ran, "run_cd")]

\* run_cd: realpath, chdir, and on success getcwd into cwd[1024] and setenv PWD
run_cd(sh, cmd) ==
    IF cmd.dirnull
    THEN [sh EXCEPT !.out = Append(sh.out, Err("ERROR: Failed to resolve path")),
                    !.ran = Append(sh.ran, "run_cd")]
    ELSE LET real_path == realpath(cmd.dir, sh.cwd)
         IN  IF ~real_path.ok
             THEN [sh EXCEPT !.out = Append(sh.out,
                                 Err("ERROR: Failed to resolve absolute path")),
                             !.ran = Append(sh.ran, "run_cd")]
             ELSE IF ~chdir_ok(real_path.path)
             THEN [sh EXCEPT !.out = Append(sh.out,
                                 Err("ERROR: Failed to change directory")),
                             !.ran = Append(sh.ran, "run_cd")]
             ELSE [sh EXCEPT !.cwd = real_path.path,
                             !.env = IF getcwd_ok(real_path.path, CwdBufSize)
                                     THEN setenv(sh.env, "PWD",
                                                 PathVal(real_path.path))
                                     ELSE sh.env,
                             !.ran = Append(sh.ran, "run_cd")]

\* kill(pid, sig) == 0: the target exists (a zombie still does)
kill_ok(ps, pid) == pid \in 1..Len(ps) /\ ps[pid].st # "reaped"

\* run_kill: kill(cmd.job, cmd.sig), perror on failure; the signal ends a
\* process that is still running
run_kill(sh, cmd) ==
    IF kill_ok(sh.procs, cmd.job)
    THEN [sh EXCEPT !.procs = IF sh.procs[cmd.job].st = "zombie" THEN sh.procs
                              ELSE Terminate(sh.procs, cmd.job, SIGNALED),
                    !.ran = Append(sh.ran, "run_kill")]
    ELSE [sh EXCEPT !.out = Append(sh.out, Err("ERROR: Failed to send signal")),
                    !.ran = Append(sh.ran, "run_kill")]

\* whether run_cd, called in directory wd, changes the directory
cd_changes(cmd, wd) ==
    /\ ~cmd.dirnull
    /\ realpath(cmd.dir, wd).ok
    /\ chdir_ok(realpath(cmd.dir, wd).path)

NotExported == [set |-> FALSE, val |-> Unset, call |-> 0, idx |-> 0, cd |-> FALSE]

\* the record of the last ListEnvSet per name, after stage idx of call c has
\* run cmd in the shell, whose directory was wd
Exported(ex, cmd, c, idx, wd) ==
    IF get_command_type(cmd) = "EXPORT" /\ setenv_ok(cmd.env_var)
    THEN [ex EXCEPT ![cmd.env_var] =
              [set |-> TRUE, val |-> cmd.val, call |-> c, idx |-> idx,
               cd |-> FALSE]]
    ELSE IF get_command_type(cmd) = "CD" /\ cd_changes(cmd, wd)
    THEN [ex EXCEPT !["PWD"].cd = TRUE]
    ELSE ex

\* parent_run_command with the break after case EXPORT missing
parent_run_command_fallthrough(sh, cmd) ==
    CASE get_command_type(cmd) = "EXPORT" -> run_cd(run_export(sh, cmd), cmd)
      [] get_command_type(cmd) = "CD"     -> run_cd(sh, cmd)
      [] get_command_type(cmd) = "KILL"   -> run_kill(sh, cmd)
      [] OTHER                            -> sh

\* parent_run_command: the switch on the command's type, in the shell
parent_run_command(sh, cmd) ==
    CASE get_command_type(cmd) = "EXPORT" -> run_export(sh, cmd)
      [] get_command_type(cmd) = "CD"     -> run_cd(sh, cmd)
      [] get_command_type(cmd) = "KILL"   -> run_kill(sh, cmd)
      [] OTHER                            -> sh

-----------------------------------------------------------------------------
(* The commands that run in the spawned process p.  Each takes the process *)
(* table and returns it as it is once the handler has returned or blocked. *)

Say(ps, p, fn, lines) ==
    [ps EXCEPT ![p].ran = Append(ps[p].ran, fn),
               ![p].said = ps[p].said \o lines]

\* execvp(cmd.args[0], cmd.args) finds the program
exec_ok(cmd) == cmd.args[1] # "nosuch"

\* the bytes the program writes to its standard output before it ends: the
\* program "write" writes its arguments, the others write nothing
Output(cmd) == IF cmd.args[1] = "write" THEN Len(cmd.args) - 1 ELSE 0

\* run_generic's forked child: execvp replaces its image, or it reports the
\* failure and ends in _exit(EXIT_FAILURE)
run_generic_child(ps, g) ==
    IF exec_ok(ps[g].h.cmd)
    THEN [ps EXCEPT ![g].st = "exec", ![g].ran = <<"execvp">>,
                    ![g].left = Output(ps[g].h.cmd)]
    ELSE Terminate(Say(ps, g, "execvp",
                       <<Err("ERROR: Failed to execute command")>>),
                   g, EXIT_FAILURE)

\* run_generic: fork; the child execs at once; the parent blocks in waitpid,
\* or registers a job when cmd.flags has BACKGROUND
run_generic(ps, p, forkok) ==
    LET cmd == ps[p].h.cmd
        pid == Len(ps) + 1
    IN  IF cmd.args = <<>>
        THEN Say(ps, p, "run_generic", <<Err("ERROR: No command provided.")>>)
        ELSE IF ~forkok
        THEN Say(ps, p, "run_generic", <<Err("ERROR: Fork failed")>>)
        ELSE LET me == ps[p]
                 forked == run_generic_child(
                     Append(ps,
                         NewProc(p, "prog", me.call, me.stage, me.h, me.pipe,
                                 me.fd0, me.fd1, me.fds, me.env, me.cwd,
                                 me.jobs)),
                     pid)
             IN  IF ~cmd.gbg
                 THEN [forked EXCEPT ![p].ran = Append(me.ran, "run_generic"),
                                     ![p].st = "waitpid"]
                 ELSE LET js == add_background_job(me.jobs, pid, cmd.args[1])
                          job_id == js[Len(js)].id
                      IN  [Say(forked, p, "run_generic",
                               <<print_job_bg_start(job_id, pid, cmd.args[1])>>)
                           EXCEPT ![p].jobs = js]

\* run_echo: every argument followed by a space, then a newline
run_echo(ps, p) ==
    Say(ps, p, "run_echo", <<Line("echo", 0, 0, ps[p].h.cmd.args)>>)

\* run_pwd: getcwd into cwd[1024], printed, or perror
run_pwd(ps, p) ==
    IF getcwd_ok(ps[p].cwd, CwdBufSize)
    THEN Say(ps, p, "run_pwd", <<Line("pwd", 0, 0, ps[p].cwd)>>)
    ELSE Say(ps, p, "run_pwd", <<Err("ERROR: Failed to get current directory")>>)

\* run_jobs: list_background_jobs() on the process's copy of the registry
run_jobs(ps, p) == Say(ps, p, "run_jobs", list_background_jobs(ps[p].jobs))

\* child_run_command: the switch on the command's type, in the spawned process
child_run_command(ps, p, forkok) ==
    LET cmd == ps[p].h.cmd
    IN  CASE get_command_type(cmd) = "GENERIC" -> run_generic(ps, p, forkok)
          [] get_command_type(cmd) = "ECHO"    -> run_echo(ps, p)
          [] get_command_type(cmd) = "PWD"     -> run_pwd(ps, p)
          [] get_command_type(cmd) = "JOBS"    -> run_jobs(ps, p)
          [] OTHER -> Say(ps, p, "default", <<Err("Unknown command type.")>>)

-----------------------------------------------------------------------------
(* The shell's steps. *)

\* check_jobs_bg_status: the lines printed by draining get_finished_job, when
\* the #ifdef keeps the loop
check_jobs_bg_status_out(ps, js, have) ==
    IF have
    THEN LET fin == FinishedJobs(ps, js)
         IN  [k \in 1..Len(fin) |->
                 print_job_bg_complete(fin[k].id, fin[k].pid, fin[k].cmd)]
    ELSE <<>>

\* check_jobs_bg_status: the registry afterwards
check_jobs_bg_status_jobs(ps, js, have) ==
    IF have THEN RemainingJobs(ps, js) ELSE js

\* run_script's early return with the null test alone
IsEmptyScript_null(hs) == hs = <<>>

\* run_script's early return: !holders, or holders[0] is EOC
IsEmptyScript(hs) == hs = <<>> \/ get_command_holder_type(hs[1]) = "EOC"

\* run_script's condition with the BACKGROUND test left out
IsForeground_always(hs) == TRUE

\* run_script's condition for the wait loop: !(holders[0].flags & BACKGROUND)
IsForeground(hs) == "BACKGROUND" \notin hs[1].flags

\* where the shell goes once the create_process loop meets EOC at index n
AfterCreate(hs, n) ==
    IF get_command_holder_type(hs[n]) # "EOC" THEN "create"
    ELSE IF IsForeground(hs) THEN "wait"
    ELSE "idle"

\* run_script, up to its first create_process call
run_script(hs) ==
    /\ pc = "idle"
    /\ call < MaxCalls
    /\ arg' = hs
    /\ IF IsEmptyScript(hs)
       THEN UNCHANGED <<pc, holders, i, call, procs, pipes, pipebuf, shFds, cwd,
                        env, jobs, out, stages, waits, exported,
                        have_get_finished_job>>
       ELSE /\ out' = check_jobs_bg_status_out(procs, jobs,
                                               have_get_finished_job)
            /\ jobs' = check_jobs_bg_status_jobs(procs, jobs,
                                                 have_get_finished_job)
            /\ holders' = hs
            /\ call' = call + 1
            /\ i' = 1
            /\ waits' = 0
            /\ stages' = <<>>
            /\ pc' = "create"
            /\ UNCHANGED <<procs, pipes, pipebuf, shFds, cwd, env, exported,
                           have_get_finished_job>>

\* the pipe ends create_process leaves open in the shell: fds[0] stays open,
\* fds[1] is closed
ParentFds(fds, h, k) ==
    IF "PIPE_OUT" \in h.flags THEN fds \cup {PipeRd(k)} ELSE fds

\* create_process in the shell: pipe(), fork(), and the parent's branch; the
\* child's branch is create_process_child
create_process ==
    /\ pc = "create"
    /\ get_command_holder_type(holders[i]) # "EOC"
    /\ \E forkok \in {fork_ok(procs)} :
        /\ LET h == holders[i]
               k == IF "PIPE_OUT" \in h.flags THEN pipes + 1 ELSE 0
               inherited == IF "PIPE_OUT" \in h.flags
                            THEN shFds \cup {PipeRd(k), PipeWr(k)} ELSE shFds
               pid == IF forkok THEN Len(procs) + 1 ELSE INIT_PID
               forked == IF forkok
                         THEN Append(procs,
                                  NewProc(SHELL, "stage", call, i, h, k, Tty, Tty,
                                          inherited, env, cwd, jobs))
                         ELSE procs
               sh == parent_run_command(
                         [cwd |-> cwd, env |-> env, out |-> out, procs |-> forked,
                          ran |-> <<>>], h.cmd)
           IN  /\ pipes' = IF "PIPE_OUT" \in h.flags THEN pipes + 1 ELSE pipes
               /\ pipebuf' = IF "PIPE_OUT" \in h.flags
                             THEN Append(pipebuf, 0) ELSE pipebuf
               /\ shFds' = ParentFds(shFds, h, k)
               /\ procs' = sh.procs
               /\ cwd' = sh.cwd
               /\ env' = sh.env
               /\ out' = sh.out
               /\ stages' = Append(stages,
                      [call |-> call, idx |-> i, h |-> h, pid |-> pid,
                       ran |-> sh.ran, cwd0 |-> cwd, env0 |-> env])
               /\ exported' = Exported(exported, h.cmd, call, i, cwd)
    /\ i' = IF AfterCreate(holders, i + 1) = "create" THEN i + 1 ELSE 1
    /\ pc' = AfterCreate(holders, i + 1)
    /\ UNCHANGED <<holders, call, jobs, waits, have_get_finished_job, arg>>

\* one iteration of run_script's wait loop: wait(NULL) collects any exited
\* child of the shell, fails at once when the shell has no child, and blocks
\* otherwise
run_script_wait ==
    /\ pc = "wait"
    /\ get_command_holder_type(holders[i]) # "EOC"
    /\ IF Zombies(procs, SHELL) # {}
       THEN \E z \in Zombies(procs, SHELL) :
                procs' = [procs EXCEPT ![z] = Reaped]
       ELSE /\ Children(procs, SHELL) = {}
            /\ procs' = procs
    /\ waits' = waits + 1
    /\ i' = i + 1
    /\ pc' = IF get_command_holder_type(holders[i + 1]) = "EOC" THEN "idle"
             ELSE "wait"
    /\ UNCHANGED <<holders, call, pipes, pipebuf, shFds, cwd, env, jobs, out,
                   stages,
                   exported, have_get_finished_job, arg>>

-----------------------------------------------------------------------------
(* The steps of the spawned processes. *)

\* the child's descriptors after create_process's redirections: an open()
\* that fails returns -1, and dup2(-1, n) leaves descriptor n as it was
Redirect(me, inok, outok) ==
    LET h == me.h
        in0 == IF "REDIRECT_IN" \in h.flags /\ inok
               THEN File(h.redirect_in) ELSE me.fd0
        out0 == IF "REDIRECT_OUT" \in h.flags /\ outok
                THEN File(h.redirect_out) ELSE me.fd1
        out1 == IF "PIPE_OUT" \in h.flags THEN PipeWr(me.pipe) ELSE out0
        rest == IF "PIPE_OUT" \in h.flags
                THEN me.fds \ {PipeRd(me.pipe), PipeWr(me.pipe)} ELSE me.fds
    IN  [me EXCEPT !.fd0 = in0, !.fd1 = out1, !.fds = rest,
                   !.openfail = ~(inok /\ outok)]

\* create_process's child branch without the _exit after child_run_command:
\* the process returns from create_process into run_script's loop
create_process_child_return(p) ==
    /\ procs[p].role = "stage"
    /\ procs[p].st = "new"
    /\ \E inok, outok \in BOOLEAN :
        /\ "REDIRECT_IN" \notin procs[p].h.flags => inok
        /\ "REDIRECT_OUT" \notin procs[p].h.flags => outok
        /\ LET set == [procs EXCEPT ![p] = Redirect(procs[p], inok, outok),
                                    ![p].st = "run"]
               ran == child_run_command(set, p, fork_ok(procs))
           IN  procs' = IF ran[p].st = "waitpid" THEN ran
                        ELSE [ran EXCEPT ![p].st = "returned"]
    /\ UNCHANGED <<pc, holders, i, call, pipes, pipebuf, shFds, cwd, env, jobs,
                   out, stages, waits, exported, have_get_finished_job, arg>>

\* create_process's child branch ending in _exit(EXIT_SUCCESS) instead
create_process_child_success(p) ==
    /\ procs[p].role = "stage"
    /\ procs[p].st = "new"
    /\ \E inok, outok \in BOOLEAN :
        /\ "REDIRECT_IN" \notin procs[p].h.flags => inok
        /\ "REDIRECT_OUT" \notin procs[p].h.flags => outok
        /\ LET set == [procs EXCEPT ![p] = Redirect(procs[p], inok, outok),
                                    ![p].st = "run"]
               ran == child_run_command(set, p, fork_ok(procs))
           IN  procs' = IF ran[p].st = "waitpid" THEN ran
                        ELSE Terminate(ran, p, 0)
    /\ UNCHANGED <<pc, holders, i, call, pipes, pipebuf, shFds, cwd, env, jobs,
                   out, stages, waits, exported, have_get_finished_job, arg>>

\* create_process in the child: the redirections, child_run_command, and
\* _exit(EXIT_FAILURE) once it returns
create_process_child(p) ==
    /\ procs[p].role = "stage"
    /\ procs[p].st = "new"
    /\ \E inok, outok \in BOOLEAN :
        /\ "REDIRECT_IN" \notin procs[p].h.flags => inok
        /\ "REDIRECT_OUT" \notin procs[p].h.flags => outok
        /\ LET set == [procs EXCEPT ![p] = Redirect(procs[p], inok, outok),
                                    ![p].st = "run"]
               ran == child_run_command(set, p, fork_ok(procs))
           IN  procs' = IF ran[p].st = "waitpid" THEN ran
                        ELSE Terminate(ran, p, EXIT_FAILURE)
    /\ UNCHANGED <<pc, holders, i, call, pipes, pipebuf, shFds, cwd, env, jobs,
                   out, stages, waits, exported, have_get_finished_job, arg>>

\* a process holds descriptor d: on its standard input or output, or open
\* besides them
Holds(me, d) == me.fd0 = d \/ me.fd1 = d \/ d \in me.fds

\* pipe k has a reader: its read end is open in the shell or in a process
\* that has not exited
HasReader(ps, fds, k) ==
    \/ PipeRd(k) \in fds
    \/ \E q \in 1..Len(ps) : ~Exited(ps, q) /\ Holds(ps[q], PipeRd(k))

\* the external program writes one byte to its standard output: a terminal
\* or a file takes it; a pipe takes it while it has room, blocks the writer
\* while it is full and has a reader, and ends the writer with SIGPIPE when
\* it has no reader
program_write(g) ==
    /\ procs[g].st = "exec"
    /\ procs[g].left > 0
    /\ LET fd == procs[g].fd1
           wrote == [procs EXCEPT ![g].left = procs[g].left - 1]
       IN  IF fd.k # "pipe_w"
           THEN procs' = wrote /\ pipebuf' = pipebuf
           ELSE IF ~HasReader(procs, shFds, fd.id)
           THEN procs' = Terminate(procs, g, SIGNALED) /\ pipebuf' = pipebuf
           ELSE /\ pipebuf[fd.id] < PipeCap
                /\ procs' = wrote
                /\ pipebuf' = [pipebuf EXCEPT ![fd.id] = pipebuf[fd.id] + 1]
    /\ UNCHANGED <<pc, holders, i, call, pipes, shFds, cwd, env, jobs, out,
                   stages, waits, exported, have_get_finished_job, arg>>

\* the external program ends, once it has written its output
program_exit(g) ==
    /\ procs[g].st = "exec"
    /\ procs[g].left = 0
    /\ procs' = Terminate(procs, g, 0)
    /\ UNCHANGED <<pc, holders, i, call, pipes, pipebuf, shFds, cwd, env, jobs,
                   out, stages, waits, exported, have_get_finished_job, arg>>

\* run_generic's waitpid(pid, NULL, 0) returns in the spawned process, which
\* then returns to create_process and ends in _exit(EXIT_FAILURE)
run_generic_waited(p) ==
    /\ procs[p].st = "waitpid"
    /\ \E g \in Zombies(procs, p) :
        procs' = Terminate([procs EXCEPT ![g] = Reaped], p, EXIT_FAILURE)
    /\ UNCHANGED <<pc, holders, i, call, pipes, pipebuf, shFds, cwd, env, jobs,
                   out, stages, waits, exported, have_get_finished_job, arg>>

-----------------------------------------------------------------------------
(* The scripts the parser hands to run_script. *)

Prog == Generic(<<"prog">>, FALSE)
BgProg == Generic(<<"prog">>, TRUE)

\* one command of every kind
Commands ==
    {Prog, Echo(<<"a", "b">>), Pwd, Jobs, Export("FOO", StrVal("bar")),
     Cd(FALSE, [abs |-> FALSE, comps |-> <<"..">>]), Kill(1)}

\* one-stage scripts: every kind in the foreground, programs in the background
Single ==
    {Script(<<Holder(c, {})>>) : c \in Commands}
    \cup {Script(<<Holder(c, {"BACKGROUND"})>>) : c \in {Prog, BgProg}}

\* two-stage pipelines: the first stage pipes, with or without a redirection
Piped ==
    {Script(<<Holder(c, f \cup {"PIPE_OUT"}), Holder(Prog, {"PIPE_IN"})>>) :
        c \in {Prog, Echo(<<"a", "b">>)}, f \in {{}, {"REDIRECT_OUT"}}}
    \cup {Script(<<Holder(Prog, {"PIPE_OUT", "BACKGROUND"}),
                   Holder(Prog, {"PIPE_IN", "REDIRECT_IN"})>>)}

Scripts == {<<>>, Script(<<>>)} \cup Single \cup Piped

Abs(comps) == [abs |-> TRUE, comps |-> comps]
Rel(comps) == [abs |-> FALSE, comps |-> comps]

\* the paths given to ChangeDirectory: existing and missing, relative and
\* absolute, through a link, a file and a locked directory, and the long chain
CdDirs ==
    {Rel(<<"..">>), Rel(<<".">>), Rel(<<"b">>), Rel(<<"L">>),
     Rel(<<"nosuch">>), Rel(<<"nosuch", "..">>),
     Abs(<<>>), Abs(<<"a", "b", "..", ".">>), Abs(<<"lnk">>),
     Abs(<<"lnk", "..">>), Abs(<<"a", "f">>), Abs(<<"a", "f", "..">>),
     Abs(<<"a", "x">>), Abs(<<"a", "x", "..">>),
     Abs(LongChain(LongDepth - 1)), Abs(LongChain(LongDepth)),
     Abs(LongChain(LongDepth + 1))}

\* the built-ins that change the shell's state, and the commands that show it
EnvCommands ==
    {Cd(FALSE, d) : d \in CdDirs} \cup {Cd(TRUE, NoDir)}
    \cup {Export(n, StrVal(v)) : n \in {"FOO", "PWD"}, v \in {"bar", "baz"}}
    \cup {Export("", StrVal("bar")), Prog, Pwd}

\* the commands put together in two-stage scripts
EnvPairs ==
    {Export("FOO", StrVal("bar")), Export("PWD", StrVal("bar")),
     Cd(FALSE, Rel(<<"..">>)), Cd(FALSE, Abs(LongChain(LongDepth))), Prog}

EnvScripts ==
    {Script(<<Holder(c, {})>>) : c \in EnvCommands}
    \cup {Script(<<Holder(c, {"PIPE_OUT"}), Holder(d, {"PIPE_IN"})>>) :
              c \in EnvPairs, d \in EnvPairs}

-----------------------------------------------------------------------------
(* The specification. *)

StartDir == <<"a", "b">>

Init ==
    /\ pc = "idle"
    /\ holders = Script(<<>>)
    /\ i = 1
    /\ call = 0
    /\ procs = <<>>
    /\ pipes = 0
    /\ pipebuf = <<>>
    /\ shFds = {}
    /\ cwd = StartDir
    /\ env = [n \in EnvNames |-> IF n = "PWD" THEN PathVal(StartDir) ELSE Unset]
    /\ jobs = <<>>
    /\ out = <<>>
    /\ stages = <<>>
    /\ waits = 0
    /\ exported = [n \in EnvNames |-> NotExported]
    /\ have_get_finished_job \in BOOLEAN
    /\ arg = Script(<<>>)

Next ==
    \/ \E hs \in Scripts : run_script(hs)
    \/ create_process
    \/ run_script_wait
    \/ \E p \in 1..Len(procs) : create_process_child(p)
    \/ \E p \in 1..Len(procs) : program_exit(p)
    \/ \E p \in 1..Len(procs) : run_generic_waited(p)

Spec == Init /\ [][Next]_vars

\* the same program, run on the scripts of state-changing built-ins
NextEnv ==
    \/ \E hs \in EnvScripts : run_script(hs)
    \/ create_process
    \/ run_script_wait
    \/ \E p \in 1..Len(procs) : create_process_child(p)
    \/ \E p \in 1..Len(procs) : program_exit(p)
    \/ \E p \in 1..Len(procs) : run_generic_waited(p)

SpecEnv == Init /\ [][NextEnv]_vars

-----------------------------------------------------------------------------
(* Properties. *)

\* the processes create_process has forked and the shell has not collected
StageProcs == {p \in 1..Len(procs) : procs[p].role = "stage"}
\* those whose child branch has run its redirections and its command
StageRan == {p \in StageProcs : procs[p].ran # <<>>}
\* those a signal ended before their child branch ran
KilledNew == {p \in StageProcs : procs[p].ran = <<>> /\ procs[p].status = SIGNALED}
\* the processes still running
Running(p) == procs[p].st \in {"new", "waitpid", "exec"}

\* C1: whenever stage i has PIPE_OUT and a stage i+1 follows it, stage i's
\* standard output is the write end of the pipe created for stage i and stage
\* i+1's standard input is the read end of that same pipe.
C1_PipeFeedsNextStage ==
    \A p, q \in StageRan :
        (/\ procs[p].call = procs[q].call
         /\ procs[q].stage = procs[p].stage + 1
         /\ "PIPE_OUT" \in procs[p].h.flags)
        => /\ procs[p].fd1 = PipeWr(procs[p].pipe)
           /\ procs[q].fd0 = PipeRd(procs[p].pipe)

\* C2: a stage with both REDIRECT_OUT and PIPE_OUT, whose redirection file
\* opened, runs its command with standard output on the redirection file,
\* not on the pipe's write end.
C2_RedirectOutBeatsPipe ==
    \A p \in StageRan :
        (/\ {"REDIRECT_OUT", "PIPE_OUT"} \subseteq procs[p].h.flags
         /\ ~procs[p].openfail)
        => /\ procs[p].fd1 = File(procs[p].h.redirect_out)
           /\ procs[p].fd1 # PipeWr(procs[p].pipe)

\* C3: when run_script has returned from a foreground script, every process
\* spawned for that script's stages has exited.
C3_ForegroundReturnsAfterExit ==
    (pc = "idle" /\ call > 0 /\ IsForeground(holders))
    => \A p \in 1..Len(procs) :
           (procs[p].role = "stage" /\ procs[p].call = call) => Exited(procs, p)

\* C4: once create_process has spawned a stage with BACKGROUND, the shell's
\* registry holds exactly one job with that process's id, the shell has
\* printed one start notice for it, and a ListJobs stage spawned later, run
\* while that process is still running, lists it.
C4_BackgroundStageRegistered ==
    \A p \in StageProcs :
        "BACKGROUND" \in procs[p].h.flags
        => /\ Cardinality({k \in 1..Len(jobs) : jobs[k].pid = p}) = 1
           /\ procs[p].call = call
                => Cardinality({k \in 1..Len(out) :
                       out[k].k = "start" /\ out[k].pid = p}) = 1
           /\ \A q \in StageRan :
                  (/\ get_command_holder_type(procs[q].h) = "JOBS"
                   /\ procs[q].call > procs[p].call
                   /\ Running(p))
                  => \E k \in 1..Len(procs[q].said) :
                         /\ procs[q].said[k].k = "job"
                         /\ procs[q].said[k].pid = p

\* C5: during and after a run_script call on a script whose stage 0 has
\* BACKGROUND, the shell is never in its wait loop and has made no wait call.
C5_BackgroundNeverWaits ==
    (call > 0 /\ "BACKGROUND" \in holders[1].flags)
    => (pc # "wait" /\ waits = 0)

\* C5's case: a background run_script call has returned while every process
\* it spawned is still running
C5_ReturnedWhileRunning ==
    /\ pc = "idle"
    /\ call > 0
    /\ "BACKGROUND" \in holders[1].flags
    /\ \E p \in StageProcs : procs[p].call = call
    /\ \A p \in 1..Len(procs) : procs[p].call = call => Running(p)

\* C6: when a non-empty run_script call begins, its poll prints exactly one
\* completion notice for every background stage process of the call before
\* it that has exited (checked on the step from idle to the first
\* create_process).
C6_FinishedJobReported ==
    [][(pc = "idle" /\ pc' = "create")
       => \A p \in 1..Len(procs) :
              (/\ procs[p].role = "stage"
               /\ procs[p].call = call
               /\ "BACKGROUND" \in procs[p].h.flags
               /\ procs[p].st = "zombie")
              => Cardinality({k \in 1..Len(out') :
                     out'[k].k = "complete" /\ out'[k].pid = p}) = 1]_vars

\* the handler the child-side routing table gives a command kind
ChildHandler(type) ==
    CASE type = "GENERIC" -> <<"run_generic">>
      [] type = "ECHO"    -> <<"run_echo">>
      [] type = "PWD"     -> <<"run_pwd">>
      [] type = "JOBS"    -> <<"run_jobs">>
      [] OTHER            -> <<"default">>

\* the handler the parent-side routing table gives a command kind
ParentHandler(type) ==
    CASE type = "EXPORT" -> <<"run_export">>
      [] type = "CD"     -> <<"run_cd">>
      [] type = "KILL"   -> <<"run_kill">>
      [] OTHER           -> <<>>

\* C7: the handlers run for a stage depend on its command kind alone: the
\* spawned process runs exactly the child-side handler of the kind (none for
\* ListEnvSet, ChangeDirectory, SendSignal), and the shell runs, once per
\* create_process call, exactly the parent-side handler of the kind (none for
\* RunExternal, Print, PrintWorkingDirectory, ListJobs).
C7_DispatchByKind ==
    /\ \A p \in StageProcs :
           \/ procs[p].ran = ChildHandler(get_command_holder_type(procs[p].h))
           \/ procs[p].st = "new"
           \/ p \in KilledNew
    /\ \A k \in 1..Len(stages) :
           /\ stages[k].ran = ParentHandler(get_command_holder_type(stages[k].h))
           /\ stages[k].idx = k
           /\ stages[k].h = holders[k]
    /\ pc = "create" => Len(stages) = i - 1
    /\ (pc # "create" /\ call > 0) => Len(stages) = Len(holders) - 1

\* C7's case: a ListEnvSet stage whose process, spawned by a successful fork,
\* has run and exited, and whose parent side has run
C7_ExportStageDone ==
    \E k \in 1..Len(stages) :
        /\ get_command_holder_type(stages[k].h) = "EXPORT"
        /\ stages[k].pid \in StageRan
        /\ procs[stages[k].pid].call = call
        /\ procs[stages[k].pid].stage = k

\* the last create_process call of the current run_script
LastStage == stages[Len(stages)]

\* C8: after a ChangeDirectory whose path is null, does not resolve, or
\* cannot be entered, the shell has reported an error and its working
\* directory and environment (PWD included) are as they were before.
C8_FailedCdChangesNothing ==
    (/\ stages # <<>>
     /\ get_command_holder_type(LastStage.h) = "CD"
     /\ ~cd_changes(LastStage.h.cmd, LastStage.cwd0))
    => /\ cwd = LastStage.cwd0
       /\ env = LastStage.env0
       /\ out # <<>>
       /\ out[Len(out)].k = "error"

\* C8's case: the last stage was a ChangeDirectory whose path resolved and
\* whose chdir failed
C8_ChdirFailed ==
    /\ stages # <<>>
    /\ get_command_holder_type(LastStage.h) = "CD"
    /\ ~LastStage.h.cmd.dirnull
    /\ realpath(LastStage.h.cmd.dir, LastStage.cwd0).ok
    /\ ~chdir_ok(realpath(LastStage.h.cmd.dir, LastStage.cwd0).path)

\* C9: after a ChangeDirectory that changed the directory, the working
\* directory is the canonical resolution of the given path and PWD equals it.
C9_CdSetsPwd ==
    (/\ stages # <<>>
     /\ get_command_holder_type(LastStage.h) = "CD"
     /\ cd_changes(LastStage.h.cmd, LastStage.cwd0))
    => /\ cwd = realpath(LastStage.h.cmd.dir, LastStage.cwd0).path
       /\ env["PWD"] = PathVal(cwd)

\* process p was spawned for a stage after the stage of the ListEnvSet e
SpawnedAfter(p, e) ==
    \/ procs[p].call > e.call
    \/ procs[p].call = e.call /\ procs[p].stage > e.idx

\* C10 as stated: after a successful ListEnvSet(name, value), and until the
\* next one of that name, the shell's environment maps name to value and so
\* does the environment of every process spawned for a later stage.
C10_ExportSeen ==
    \A n \in EnvNames :
        exported[n].set
        => /\ env[n] = exported[n].val
           /\ \A p \in 1..Len(procs) :
                  (procs[p].role # "none" /\ SpawnedAfter(p, exported[n]))
                  => procs[p].env[n] = exported[n].val

\* C10 amended: the same, until the next ListEnvSet of that name or, for the
\* name PWD, the next ChangeDirectory that changes the directory.
C10_ExportSeenUntilCd ==
    \A n \in EnvNames :
        (exported[n].set /\ ~exported[n].cd)
        => /\ env[n] = exported[n].val
           /\ \A p \in 1..Len(procs) :
                  (procs[p].role # "none" /\ SpawnedAfter(p, exported[n]))
                  => procs[p].env[n] = exported[n].val

\* C10's case: an external program running in a later run_script call than a
\* ListEnvSet of FOO sees the value set
C10_LaterProgramSees ==
    \E p \in 1..Len(procs) :
        /\ procs[p].role = "prog"
        /\ procs[p].st = "exec"
        /\ exported["FOO"].set
        /\ procs[p].call > exported["FOO"].call
        /\ procs[p].env["FOO"] = exported["FOO"].val

\* the create_process calls of the current run_script whose fork() failed
FailedForks == {k \in 1..Len(stages) : stages[k].pid = INIT_PID}

\* C11: for a stage whose fork failed, the shell has reported the failure
\* and has run no parent-side command, and once the foreground call has
\* returned the wait loop has made one wait call per stage that was spawned.
C11_ForkFailureSkipsStage ==
    \A k \in FailedForks :
        /\ stages[k].ran = <<>>
        /\ \E n \in 1..Len(out) : out[n].k = "error"
        /\ (pc = "idle" /\ IsForeground(holders))
               => waits = Len(stages) - Cardinality(FailedForks)

\* C12: a spawned process in which a redirection open() failed has reported
\* the error and exited without running any command handler.
C12_OpenFailureStops ==
    \A p \in StageProcs :
        procs[p].openfail
        => /\ procs[p].ran = <<>>
           /\ \E n \in 1..Len(procs[p].said) : procs[p].said[n].k = "error"
           /\ Exited(procs, p)

-----------------------------------------------------------------------------
(* Scripts whose commands break their argument contract. *)

NoArgs == Generic(<<>>, FALSE)
BgNoArgs == Generic(<<>>, TRUE)
NullCd == Cd(TRUE, NoDir)

\* a program without arguments and a directory change without a path, alone,
\* in the background and in a pipeline, and a well-formed program
ErrScripts ==
    {Script(<<Holder(c, {})>>) : c \in {NoArgs, BgNoArgs, NullCd, Prog}}
    \cup {Script(<<Holder(NoArgs, {"BACKGROUND"})>>)}
    \cup {Script(<<Holder(c, {"PIPE_OUT"}), Holder(d, {"PIPE_IN"})>>) :
              c \in {NoArgs, NullCd, Prog}, d \in {NoArgs, NullCd}}

\* the same program, run on the scripts that break an argument contract
NextErr ==
    \/ \E hs \in ErrScripts : run_script(hs)
    \/ create_process
    \/ run_script_wait
    \/ \E p \in 1..Len(procs) : create_process_child(p)
    \/ \E p \in 1..Len(procs) : program_exit(p)
    \/ \E p \in 1..Len(procs) : run_generic_waited(p)

SpecErr == Init /\ [][NextErr]_vars

\* run_generic's and run_cd's argument checks: no args[0], no dir
ViolatesContract(cmd) ==
    \/ get_command_type(cmd) = "GENERIC" /\ cmd.args = <<>>
    \/ get_command_type(cmd) = "CD" /\ cmd.dirnull

\* C13: for a stage whose command is a RunExternal without arguments or a
\* ChangeDirectory without a path, no process has been spawned, and a
\* ChangeDirectory's violation has been reported by the shell and has left
\* the working directory alone.
C13_ContractViolationSpawnsNothing ==
    \A k \in 1..Len(stages) :
        ViolatesContract(stages[k].h.cmd)
        => /\ stages[k].pid = INIT_PID
           /\ get_command_type(stages[k].h.cmd) = "CD"
                  => /\ \E n \in 1..Len(out) : out[n].k = "error"
                     /\ cwd = stages[k].cwd0

\* C14: every process created for the current run_script call and not yet
\* collected is the one process create_process spawned for its stage, so
\* that n stages account for n processes.
C14_OneProcessPerStage ==
    \A p \in 1..Len(procs) :
        (procs[p].role # "none" /\ procs[p].call = call)
        => /\ procs[p].stage \in 1..Len(stages)
           /\ stages[procs[p].stage].pid = p

\* the handlers of parent_run_command
ParentHandlers == {"run_export", "run_cd", "run_kill"}

\* C15: a process spawned by create_process is a child of the shell that has
\* not run yet, is blocked in run_generic's waitpid, or has exited, and has run
\* no parent-side handler; a process spawned by run_generic has replaced its
\* image or has exited, and is no child of the shell; the shell alone spawns
\* stages.
C15_OnlyShellOrchestrates ==
    \A p \in 1..Len(procs) :
        /\ procs[p].role = "stage"
               => /\ procs[p].st \in {"new", "waitpid", "zombie"}
                  /\ procs[p].ppid = SHELL
                  /\ \A n \in 1..Len(procs[p].ran) :
                         procs[p].ran[n] \notin ParentHandlers
        /\ procs[p].role = "prog"
               => /\ procs[p].st \in {"exec", "zombie"}
                  /\ procs[p].ppid # SHELL

\* C15's case: while the shell is in its wait loop, one stage's process has
\* run its command and exited and another stage's program has replaced its
\* image
C15_ChildrenEnded ==
    /\ pc = "wait"
    /\ \E p \in StageRan, g \in 1..Len(procs) :
           /\ procs[p].st = "zombie"
           /\ procs[p].status = EXIT_FAILURE
           /\ procs[g].role = "prog"
           /\ procs[g].st = "exec"
           /\ procs[g].stage # procs[p].stage

\* C16: whenever run_script is not running, the shell has no pipe descriptor
\* open (its open descriptors are those it started with), and a spawned
\* process that has run its redirections holds no pipe end besides those on
\* its standard input and output.
C16_ShellHoldsNoPipe ==
    /\ pc = "idle" => shFds = {}
    /\ \A p \in StageRan : procs[p].fds = {}

-----------------------------------------------------------------------------
(* Pipelines whose first stage writes to its standard output. *)

\* the most a program writes: one byte more than a pipe holds
MaxOut == PipeCap + 1

\* the program that writes n bytes
Write(n) == Generic(<<"write">> \o [k \in 1..n |-> "x"], FALSE)

\* a writer alone, piped into a program, and piped with its output redirected
PipeScripts ==
    {Script(<<Holder(Write(n), {})>>) : n \in 0..MaxOut}
    \cup {Script(<<Holder(Write(n), f \cup {"PIPE_OUT"}),
                   Holder(Prog, {"PIPE_IN"})>>) :
              n \in 0..MaxOut, f \in {{}, {"REDIRECT_OUT"}}}

\* the steps of process p
ProcStep(p) ==
    /\ p \in 1..Len(procs)
    /\ \/ create_process_child(p)
       \/ program_write(p)
       \/ program_exit(p)
       \/ run_generic_waited(p)

\* the same program, run on the writers' scripts
NextPipe ==
    \/ \E hs \in PipeScripts : run_script(hs)
    \/ create_process
    \/ run_script_wait
    \/ \E p \in 1..Len(procs) : create_process_child(p)
    \/ \E p \in 1..Len(procs) : program_write(p)
    \/ \E p \in 1..Len(procs) : program_exit(p)
    \/ \E p \in 1..Len(procs) : run_generic_waited(p)

\* the scheduler runs the shell and every process that can take a step
SpecPipe ==
    /\ Init
    /\ [][NextPipe]_vars
    /\ WF_vars(create_process)
    /\ WF_vars(run_script_wait)
    /\ \A p \in 1..MaxProcs : WF_vars(ProcStep(p))

\* process g is blocked in write(): its standard output is a full pipe that
\* still has a reader
WriterBlocked(g) ==
    /\ procs[g].st = "exec"
    /\ procs[g].left > 0
    /\ procs[g].fd1.k = "pipe_w"
    /\ HasReader(procs, shFds, procs[g].fd1.id)
    /\ pipebuf[procs[g].fd1.id] = PipeCap

\* process p is blocked in run_generic's waitpid: its child has not exited
WaitpidBlocked(p) == procs[p].st = "waitpid" /\ Zombies(procs, p) = {}

\* the shell is blocked in run_script's wait(NULL) and every process that
\* has not exited is blocked too: no step is possible any more
WaitLoopStuck ==
    /\ pc = "wait"
    /\ Zombies(procs, SHELL) = {}
    /\ Children(procs, SHELL) # {}
    /\ \A p \in 1..Len(procs) :
           Exited(procs, p) \/ WriterBlocked(p) \/ WaitpidBlocked(p)

\* C17: a foreground run_script call on a pipeline of programs that end once
\* their output is taken returns: the shell never sits in its wait loop with
\* every remaining process blocked for good on a pipe nobody reads.
C17_ForegroundPipelineReturns == ~WaitLoopStuck

\* C17 as a liveness property of the fair specification
C17_WaitLoopLeadsToReturn == (pc = "wait") ~> (pc = "idle")

\* C18: a run_script call whose argument is null or begins with EOC changes
\* nothing: the shell stays where it was, with the same registry, output,
\* processes, descriptors and wait count.
C18_EmptyScriptChangesNothing ==
    [][(/\ arg' # arg
        /\ (arg' = <<>> \/ get_command_holder_type(arg'[1]) = "EOC"))
       => UNCHANGED <<pc, holders, i, call, procs, pipes, pipebuf, shFds, cwd,
                      env, jobs, out, stages, waits, exported,
                      have_get_finished_job>>]_vars

\* C18's case: the last run_script call was on an empty pipeline, after an
\* earlier call, while an exited child of the shell is still uncollected
C18_EmptyCallAmidChildren ==
    /\ call > 0
    /\ (arg = <<>> \/ get_command_holder_type(arg[1]) = "EOC")
    /\ Zombies(procs, SHELL) # {}

\* the command kinds of the parent-side routing table
ParentKinds == {"EXPORT", "CD", "KILL"}

\* C19: the process spawned for a ListEnvSet, ChangeDirectory or SendSignal
\* stage prints nothing, and the shell runs no handler for a stage whose kind
\* is outside the parent-side table.
C19_ParentKindsSilentInChild ==
    /\ \A p \in StageRan :
           get_command_holder_type(procs[p].h) \in ParentKinds
           => procs[p].said = <<>>
    /\ \A k \in 1..Len(stages) :
           get_command_holder_type(stages[k].h) \notin ParentKinds
           => stages[k].ran = <<>>

\* C20: a process spawned by create_process that has exited, and was not
\* ended by a signal, has exited with EXIT_FAILURE, whatever its command.
C20_StageExitsWithFailure ==
    \A p \in StageProcs :
        (procs[p].st = "zombie" /\ procs[p].status # SIGNALED)
        => procs[p].status = EXIT_FAILURE

\* C20's case: the process of a Print, PrintWorkingDirectory or ListJobs stage
\* has run its command without an error and has exited with EXIT_FAILURE
C20_SuccessfulBuiltinFailed ==
    \E p \in StageRan :
        /\ get_command_holder_type(procs[p].h) \in {"ECHO", "PWD", "JOBS"}
        /\ \A n \in 1..Len(procs[p].said) : procs[p].said[n].k # "error"
        /\ procs[p].st = "zombie"
        /\ procs[p].status = EXIT_FAILURE

====
